---------------------------- MODULE Spec2Model ----------------------------
(***************************************************************************)
(* Request dispatch of suika_server: Router registration (get, post, put,  *)
(* delete, patch, use_router), Router::route / Router::handle, and the     *)
(* middleware continuation (NextMiddleware) the handlers are called with.   *)
(*                                                                         *)
(* A path is a sequence of one-character strings.  In a route pattern the  *)
(* group opener "(?P<id>" and the class "\d" are kept as one element each; *)
(* every other element is one character.                                   *)
(***************************************************************************)
EXTENDS Naturals, Sequences, FiniteSets, TLC

VARIABLES
    routers,    \* router id -> Router {specific_routes, regex_routes, nested_routers, mounted}
    middlewares, \* the server's middleware sequence, in the order of use_middleware
    phase,      \* "setup" while routes are registered, "serving" after into_arc / run
    req,        \* the Request of the last call of handle: method, path, params
    res,        \* its Response: status, body
    invoked,    \* the handlers called for it, in order, each with what it was given
    visited,    \* the calls of Router::route made for it: router and router-local path
    stages,     \* the positions of the middlewares invoked for it, in order
    result,     \* what handle returned: "none" before any call, "Ok", "Err" or "panic"
    failure,    \* the error it returned with Err, "" otherwise
    tasks       \* the requests being resolved at the same time, each in its own task

vars == <<routers, middlewares, phase, req, res, invoked, visited, stages, result,
          failure, tasks>>

\* What belongs to the request being answered.
exchange == <<req, res, invoked, visited, stages, result, failure, tasks>>

-----------------------------------------------------------------------------
(* Bounds of the model *)

NumRouters == 3
MaxRoutes == 2
MaxMounts == 2
NumTasks == 2

RouterIds == 0 .. (NumRouters - 1)
TaskIds == 1 .. NumTasks
\* The router handed to the server; the others are only ever mounted.
MainRouter == 0

\* The methods of the requests; routes are registered for GET, POST, PUT,
\* DELETE and PATCH.
ReqMethods == {"GET", "POST"}

NoPath == <<>>
PathX == <<"/", "x">>
PathWild == <<"/", ".", "*">>
PathItems == <<"/", "(?P<id>", "\\d", "+", ")", "$">>
PathItemsStar == <<"/", "(?P<id>", "\\d", "*", ")", "$">>
RoutePaths == {PathX, PathWild, PathItems, PathItemsStar}
\* The paths put, delete and patch are called with.
LiteralPaths == {PathX}

PrefixA == <<"/", "a">>
PrefixB == <<"/", "b">>
MountPaths == {PrefixA, PrefixB}

PathFour == <<"/", "4">>
PathRoot == <<"/">>
\* Among the paths requested: one shorter than every mount prefix, and one that
\* is a mount prefix with nothing after it.
ReqPaths ==
    { PathX,
      PathFour,
      PathRoot,
      PrefixA,
      <<"/", "a", "/", "x">>,
      <<"/", "a", "/", "/", "x">>,
      <<"/", "a", "/", "b", "/", "x">> }

\* What the called handler does: write its body, call next.proceed and return
\* Ok (tests::handler), or return an error (a failing `?` in a handler).
HandlerOutcomes == {"ok", "err"}
HandlerBody == "Hello, world!"
HandlerError == "boom"

-----------------------------------------------------------------------------
(* Route: the compiled matcher of a route and Regex::is_match *)

Digits == {"4"}
GroupMarks == {"(?P<id>", ")"}

RECURSIVE Compile(_)
Compile(text) ==
    IF text = <<>> THEN <<>>
    ELSE LET h == Head(text) IN
         IF h \in GroupMarks THEN Compile(Tail(text))
         ELSE IF h = "$" THEN <<[cls |-> "end", q |-> "1"]>> \o Compile(Tail(text))
         ELSE LET q == IF Len(text) >= 2 /\ text[2] \in {"*", "+"} THEN text[2] ELSE "1"
                  rest == IF q = "1" THEN Tail(text) ELSE Tail(Tail(text))
              IN  <<[cls |-> h, q |-> q]>> \o Compile(rest)

Accepts(cls, c) ==
    IF cls = "." THEN TRUE
    ELSE IF cls = "\\d" THEN c \in Digits
    ELSE c = cls

\* The atoms match a prefix of s (the whole of s when they end in "$").
RECURSIVE MatchHere(_, _)
MatchHere(atoms, s) ==
    IF atoms = <<>> THEN TRUE
    ELSE LET h == Head(atoms) IN
         IF h.cls = "end" THEN s = <<>> /\ MatchHere(Tail(atoms), s)
         ELSE IF h.q = "1"
              THEN s /= <<>> /\ Accepts(h.cls, Head(s)) /\ MatchHere(Tail(atoms), Tail(s))
         ELSE IF h.q = "*"
              THEN \/ MatchHere(Tail(atoms), s)
                   \/ s /= <<>> /\ Accepts(h.cls, Head(s)) /\ MatchHere(atoms, Tail(s))
         ELSE s /= <<>> /\ Accepts(h.cls, Head(s))
              /\ MatchHere(<<[cls |-> h.cls, q |-> "*"]>> \o Tail(atoms), Tail(s))

\* Regex::is_match: the pattern matches somewhere in s.
is_match(regex, s) ==
    \E i \in 1 .. (Len(s) + 1) : MatchHere(regex, SubSeq(s, i, Len(s)))

NewRoute(method, path, handler) ==
    [method |-> method, path |-> path, regex |-> Compile(path), handler |-> handler]

-----------------------------------------------------------------------------
(* Router: construction and registration *)

NewRouter ==
    [specific_routes |-> <<>>, regex_routes |-> <<>>,
     nested_routers |-> <<>>, mounted |-> NoPath]

contains(path, c) == \E i \in 1 .. Len(path) : path[i] = c

\* A router passed to use_router was moved into its parent.
IsMoved(r) ==
    \E p \in RouterIds : \E i \in 1 .. Len(routers[p].nested_routers) :
        routers[p].nested_routers[i][2] = r

RECURSIVE SumLen(_, _)
SumLen(f, S) ==
    IF S = {} THEN 0
    ELSE LET r == CHOOSE x \in S : TRUE IN Len(f[r]) + SumLen(f, S \ {r})

NumRoutes ==
    SumLen([r \in RouterIds |->
               routers[r].specific_routes \o routers[r].regex_routes], RouterIds)
NumMounts == SumLen([r \in RouterIds |-> routers[r].nested_routers], RouterIds)

\* As add_route, putting the new route in front of the ones registered before.
add_route_in_front(r, method, path) ==
    /\ phase = "setup"
    /\ ~IsMoved(r)
    /\ NumRoutes < MaxRoutes
    /\ IF contains(path, "*")
       THEN routers' = [routers EXCEPT ![r].regex_routes =
                <<NewRoute(method, path, <<r, "regex", Len(@) + 1>>)>> \o @]
       ELSE routers' = [routers EXCEPT ![r].specific_routes =
                <<NewRoute(method, path, <<r, "specific", Len(@) + 1>>)>> \o @]
    /\ UNCHANGED <<middlewares, phase, exchange>>

\* The handler registered by a call is named by where its route is stored.
add_route(r, method, path) ==
    /\ phase = "setup"
    /\ ~IsMoved(r)
    /\ NumRoutes < MaxRoutes
    /\ IF contains(path, "*")
       THEN routers' = [routers EXCEPT ![r].regex_routes =
                Append(@, NewRoute(method, path, <<r, "regex", Len(@) + 1>>))]
       ELSE routers' = [routers EXCEPT ![r].specific_routes =
                Append(@, NewRoute(method, path, <<r, "specific", Len(@) + 1>>))]
    /\ UNCHANGED <<middlewares, phase, exchange>>

get(r, path) == add_route(r, "GET", path)
post(r, path) == add_route(r, "POST", path)
put(r, path) == add_route(r, "PUT", path)
delete(r, path) == add_route(r, "DELETE", path)
patch(r, path) == add_route(r, "PATCH", path)

use_router(r, path, child) ==
    /\ phase = "setup"
    /\ child /= r /\ child /= MainRouter
    /\ ~IsMoved(r) /\ ~IsMoved(child)
    /\ NumMounts < MaxMounts
    /\ routers' = [routers EXCEPT
            ![child].mounted = path,
            ![r].nested_routers = Append(@, <<path, child>>)]
    /\ UNCHANGED <<middlewares, phase, exchange>>

into_arc ==
    /\ phase = "setup"
    /\ phase' = "serving"
    /\ UNCHANGED <<routers, middlewares, exchange>>

-----------------------------------------------------------------------------
(* Response and NextMiddleware, as Router::route and the handlers use them *)

NewResponse == [status |-> 0, body |-> ""]
set_status(rs, code) == [rs EXCEPT !.status = code]
write_body(rs, b) == [rs EXCEPT !.body = b]

\* What one call of handle works on: the request, the response, and the record
\* of the handlers and routers it has reached.
NewExchange(method, path) ==
    [req |-> [method |-> method, path |-> path, params |-> <<>>],
     res |-> NewResponse, invoked |-> <<>>, visited |-> <<>>, stages |-> <<>>]

\* A task before its request has arrived: pc is where the task stands, cur the
\* router whose route is being called, sel the route whose handler the
\* returned future holds.
IdleTask ==
    [pc |-> "idle", x |-> NewExchange("", NoPath), outcome |-> "ok",
     cur |-> MainRouter, sel |-> <<>>, error |-> "", result |-> "none"]

Done(x, r) == [x |-> x, result |-> r, error |-> ""]
Failed(x, e) == [x |-> x, result |-> "Err", error |-> e]

\* NextMiddleware::new(vec![]): a continuation with nothing left to run.
EmptyNext == [middlewares |-> <<>>, index |-> 1]

\* What a middleware of the server does with its continuation: call proceed
\* once and return its result, answer itself without calling proceed, return
\* an error, call proceed once and answer itself when that fails, or resolve
\* the request as the main router.
MiddlewareKinds == {"pass", "stop", "fail", "recover", "router"}
StopBody == "short-circuit"
MiddlewareError == "denied"
RecoverBody == "recovered"

\* A middleware that recovers: the error of the rest of the sequence becomes
\* its own answer.
Recovered(out) ==
    IF out.result = "Err"
    THEN [x |-> [out.x EXCEPT !.res = write_body(@, RecoverBody)],
          result |-> "Ok", error |-> ""]
    ELSE out

\* As ProceedAtEnd, treating a call with nothing left to run as an error.
ProceedAtEndFails(x) == Failed(x, "no middleware left")

\* next.proceed(req, res) of a continuation whose cursor is at the end.
ProceedAtEnd(x) == Done(x, "Ok")

\* The continuation a middleware is handed: the cursor advanced by one.
Advanced(next) == [next EXCEPT !.index = @ + 1]

RECURSIVE Proceed(_, _, _)
RECURSIVE route(_, _, _, _)

-----------------------------------------------------------------------------
(* Router::route *)

Min(S) == CHOOSE n \in S : \A m \in S : n <= m

\* The first of the indices S a loop goes through, 0 when there is none.
First(S) == IF S = {} THEN 0 ELSE Min(S)

RECURSIVE trim_start_matches(_, _)
trim_start_matches(s, c) ==
    IF s /= <<>> /\ Head(s) = c THEN trim_start_matches(Tail(s), c) ELSE s

\* full_path[self.mounted.len()..] is out of bounds when the path is shorter.
SliceInBounds(mounted, full_path) == Len(mounted) <= Len(full_path)

\* As LocalPath, matching against the full path in a mounted router too.
LocalPathUnstripped(mounted, full_path) == full_path

LocalPath(mounted, full_path) ==
    IF mounted = <<>> THEN full_path
    ELSE <<"/">> \o
         trim_start_matches(SubSeq(full_path, Len(mounted) + 1, Len(full_path)), "/")

\* As RegexMatch, taking the last matching pattern route instead of the first.
RegexMatchLast(r, method, path) ==
    LET S == {i \in 1 .. Len(routers[r].regex_routes) :
                 /\ routers[r].regex_routes[i].method = method
                 /\ is_match(routers[r].regex_routes[i].regex, path)}
    IN  IF S = {} THEN 0 ELSE CHOOSE n \in S : \A m \in S : m <= n

RegexMatch(r, method, path) ==
    First({i \in 1 .. Len(routers[r].regex_routes) :
              /\ routers[r].regex_routes[i].method = method
              /\ is_match(routers[r].regex_routes[i].regex, path)})

\* As SpecificMatch, with the pattern routes tried before the exact ones.
SpecificMatchAfterRegex(r, method, path) ==
    IF RegexMatch(r, method, path) /= 0 THEN 0
    ELSE First({i \in 1 .. Len(routers[r].specific_routes) :
                   /\ routers[r].specific_routes[i].method = method
                   /\ routers[r].specific_routes[i].path = path})

\* As SpecificMatch, comparing the path only.
SpecificMatchAnyMethod(r, method, path) ==
    First({i \in 1 .. Len(routers[r].specific_routes) :
              routers[r].specific_routes[i].path = path})

SpecificMatch(r, method, path) ==
    First({i \in 1 .. Len(routers[r].specific_routes) :
              /\ routers[r].specific_routes[i].method = method
              /\ routers[r].specific_routes[i].path = path})

starts_with(s, prefix) ==
    Len(prefix) <= Len(s) /\ SubSeq(s, 1, Len(prefix)) = prefix

\* As NestedMatch, delegating to the first mounted child whatever its prefix.
NestedMatchAny(r, full_path) ==
    First(1 .. Len(routers[r].nested_routers))

\* As NestedMatch, delegating to the last mounted child whose prefix starts
\* the path.
NestedMatchLast(r, full_path) ==
    LET S == {i \in 1 .. Len(routers[r].nested_routers) :
                 starts_with(full_path, routers[r].nested_routers[i][1])}
    IN  IF S = {} THEN 0 ELSE CHOOSE n \in S : \A m \in S : m <= n

NestedMatch(r, full_path) ==
    First({i \in 1 .. Len(routers[r].nested_routers) :
              starts_with(full_path, routers[r].nested_routers[i][1])})

\* The handler of a route: tests::handler writes its body, calls next.proceed
\* and returns Ok unless proceed failed; a failing handler returns its error.
CallHandler(rt, x, next, outcome) ==
    LET x1 == [x EXCEPT !.invoked =
                   Append(@, [handler |-> rt.handler, params |-> x.req.params,
                              outcome |-> outcome])]
    IN  IF outcome = "err" THEN Failed(x1, HandlerError)
        ELSE Proceed(next, [x1 EXCEPT !.res = write_body(@, HandlerBody)], outcome)

\* As RunRoute, with the handler's error returned to the caller of route.
RunRoutePropagating(rt, x, next, outcome) == CallHandler(rt, x, next, outcome)

\* The async block around the handler: an error becomes a 500, never an Err.
RunRoute(rt, x, next, outcome) ==
    LET h == CallHandler(rt, x, next, outcome)
    IN  IF h.result = "Err"
        THEN Done([h.x EXCEPT !.res =
                      write_body(set_status(@, 500),
                                 "Internal Server Error: " \o h.error)], "Ok")
        ELSE Done(h.x, "Ok")

\* As NotFound, reporting the unmatched request as an error of the pipeline.
NotFoundAsError(x) ==
    Failed([x EXCEPT !.res = set_status(@, 404)], "Not Found")

NotFound(x) ==
    Done([x EXCEPT !.res = write_body(set_status(@, 404), "Not Found")], "Ok")

route(r, x, next, outcome) ==
    LET full_path == x.req.path
        method == x.req.method
        mounted == routers[r].mounted
    IN  IF ~SliceInBounds(mounted, full_path) THEN Done(x, "panic")
        ELSE
        LET path == LocalPath(mounted, full_path)
            x1 == [x EXCEPT !.visited = Append(@, [router |-> r, path |-> path])]
            s == SpecificMatch(r, method, path)
            g == RegexMatch(r, method, path)
            n == NestedMatch(r, full_path)
        IN  IF s /= 0 THEN RunRoute(routers[r].specific_routes[s], x1, next, outcome)
            ELSE IF g /= 0 THEN RunRoute(routers[r].regex_routes[g], x1, next, outcome)
            ELSE IF n /= 0
                 THEN route(routers[r].nested_routers[n][2], x1, next, outcome)
            ELSE NotFound(x1)

\* As Proceed, going on to the rest of the sequence after a middleware that
\* answered without calling proceed.
ProceedRunsAll(next, x, outcome) ==
    IF next.index > Len(next.middlewares) THEN ProceedAtEnd(x)
    ELSE LET mw == next.middlewares[next.index]
             x1 == [x EXCEPT !.stages = Append(@, next.index)]
         IN  CASE mw = "pass" -> Proceed(Advanced(next), x1, outcome)
               [] mw = "stop" ->
                      Proceed(Advanced(next),
                              [x1 EXCEPT !.res = write_body(@, StopBody)], outcome)
               [] mw = "fail" -> Failed(x1, MiddlewareError)
               [] mw = "recover" -> Recovered(Proceed(Advanced(next), x1, outcome))
               [] OTHER -> route(MainRouter, x1, Advanced(next), outcome)

\* As Proceed, with a middleware that calls proceed dropping its error.
ProceedSwallowing(next, x, outcome) ==
    IF next.index > Len(next.middlewares) THEN ProceedAtEnd(x)
    ELSE LET mw == next.middlewares[next.index]
             x1 == [x EXCEPT !.stages = Append(@, next.index)]
         IN  CASE mw = "pass" -> Done(Proceed(Advanced(next), x1, outcome).x, "Ok")
               [] mw = "stop" -> Done([x1 EXCEPT !.res = write_body(@, StopBody)], "Ok")
               [] mw = "fail" -> Failed(x1, MiddlewareError)
               [] mw = "recover" -> Recovered(Proceed(Advanced(next), x1, outcome))
               [] OTHER -> route(MainRouter, x1, Advanced(next), outcome)

\* next.proceed(req, res): nothing to do at the end of the sequence, else the
\* middleware at the cursor is invoked with the cursor advanced by one, and
\* its result is the result of proceed.
Proceed(next, x, outcome) ==
    IF next.index > Len(next.middlewares) THEN ProceedAtEnd(x)
    ELSE LET mw == next.middlewares[next.index]
             x1 == [x EXCEPT !.stages = Append(@, next.index)]
         IN  CASE mw = "pass" -> Proceed(Advanced(next), x1, outcome)
               [] mw = "stop" -> Done([x1 EXCEPT !.res = write_body(@, StopBody)], "Ok")
               [] mw = "fail" -> Failed(x1, MiddlewareError)
               [] mw = "recover" -> Recovered(Proceed(Advanced(next), x1, outcome))
               [] OTHER -> route(MainRouter, x1, Advanced(next), outcome)

\* Router::handle on the main router, called as the tests call it: a fresh
\* Response and a continuation with no middleware left.  One request is
\* followed per behaviour: route reads only the routers, which nothing
\* changes after into_arc.
handle(method, path, outcome) ==
    /\ phase = "serving"
    /\ result = "none"
    /\ LET out == route(MainRouter, NewExchange(method, path), EmptyNext, outcome)
       IN  /\ req' = out.x.req
           /\ res' = out.x.res
           /\ invoked' = out.x.invoked
           /\ visited' = out.x.visited
           /\ stages' = out.x.stages
           /\ result' = out.result
           /\ failure' = out.error
    /\ UNCHANGED <<routers, middlewares, phase, tasks>>

-----------------------------------------------------------------------------

Init ==
    /\ routers = [r \in RouterIds |-> NewRouter]
    /\ middlewares = <<>>
    /\ phase = "setup"
    /\ req = [method |-> "", path |-> NoPath, params |-> <<>>]
    /\ res = NewResponse
    /\ invoked = <<>>
    /\ visited = <<>>
    /\ stages = <<>>
    /\ result = "none"
    /\ failure = ""
    /\ tasks = [t \in TaskIds |-> IdleTask]

Next ==
    \/ \E r \in RouterIds, path \in RoutePaths : get(r, path)
    \/ \E r \in RouterIds, path \in RoutePaths : post(r, path)
    \/ \E r \in RouterIds, path \in LiteralPaths : put(r, path)
    \/ \E r \in RouterIds, path \in LiteralPaths : delete(r, path)
    \/ \E r \in RouterIds, path \in LiteralPaths : patch(r, path)
    \/ \E r \in RouterIds, child \in RouterIds, path \in MountPaths :
          use_router(r, path, child)
    \/ into_arc
    \/ \E method \in ReqMethods, path \in ReqPaths, outcome \in HandlerOutcomes :
          handle(method, path, outcome)

Spec == Init /\ [][Next]_vars

-----------------------------------------------------------------------------
(* The server's middleware sequence around a main router with one route *)

MaxChain == 3

\* The routers of tests::test_handle_get and tests::test_handle_regex_route.
RouterWithHello ==
    [NewRouter EXCEPT !.specific_routes =
        <<NewRoute("GET", PathX, <<MainRouter, "specific", 1>>)>>]
RouterWithPattern ==
    [NewRouter EXCEPT !.regex_routes =
        <<NewRoute("GET", PathWild, <<MainRouter, "regex", 1>>)>>]

\* server.use_middleware(Arc::new(m)); the main router is moved into the
\* server, so it is used at most once.
use_middleware(kind) ==
    /\ phase = "setup"
    /\ Len(middlewares) < MaxChain
    /\ kind = "router" => \A i \in 1 .. Len(middlewares) : middlewares[i] /= "router"
    /\ middlewares' = Append(middlewares, kind)
    /\ UNCHANGED <<routers, phase, exchange>>

\* server.run: the sequence is frozen and requests are answered.
run ==
    /\ phase = "setup"
    /\ phase' = "serving"
    /\ UNCHANGED <<routers, middlewares, exchange>>

\* One request through the pipeline: a fresh cursor at the first middleware.
serve(method, path, outcome) ==
    /\ phase = "serving"
    /\ result = "none"
    /\ LET out == Proceed([middlewares |-> middlewares, index |-> 1],
                          NewExchange(method, path), outcome)
       IN  /\ req' = out.x.req
           /\ res' = out.x.res
           /\ invoked' = out.x.invoked
           /\ visited' = out.x.visited
           /\ stages' = out.x.stages
           /\ result' = out.result
           /\ failure' = out.error
    /\ UNCHANGED <<routers, middlewares, phase, tasks>>

InitChain ==
    /\ routers \in {[r \in RouterIds |-> IF r = MainRouter THEN m ELSE NewRouter] :
                        m \in {RouterWithHello, RouterWithPattern}}
    /\ middlewares = <<>>
    /\ phase = "setup"
    /\ req = [method |-> "", path |-> NoPath, params |-> <<>>]
    /\ res = NewResponse
    /\ invoked = <<>>
    /\ visited = <<>>
    /\ stages = <<>>
    /\ result = "none"
    /\ failure = ""
    /\ tasks = [t \in TaskIds |-> IdleTask]

NextChain ==
    \/ \E kind \in MiddlewareKinds : use_middleware(kind)
    \/ run
    \/ \E method \in ReqMethods, path \in {PathX, PathFour}, outcome \in HandlerOutcomes :
          serve(method, path, outcome)
    \/ \E method \in ReqMethods, path \in {PathX, PathFour}, outcome \in HandlerOutcomes :
          handle(method, path, outcome)

SpecChain == InitChain /\ [][NextChain]_vars

-----------------------------------------------------------------------------
(* What a finished call of handle is checked against *)

Handled == result /= "none"

ExactHits(r, method, path) ==
    {i \in 1 .. Len(routers[r].specific_routes) :
        /\ routers[r].specific_routes[i].method = method
        /\ routers[r].specific_routes[i].path = path}

PatternHits(r, method, path) ==
    {i \in 1 .. Len(routers[r].regex_routes) :
        /\ routers[r].regex_routes[i].method = method
        /\ is_match(routers[r].regex_routes[i].regex, path)}

ChildHits(r, full_path) ==
    {i \in 1 .. Len(routers[r].nested_routers) :
        starts_with(full_path, routers[r].nested_routers[i][1])}

Earliest(S) == CHOOSE n \in S : \A m \in S : n <= m

\* The one handler called is h.
OnlyInvoked(h) == Len(invoked) = 1 /\ invoked[1].handler = h

-----------------------------------------------------------------------------
(* Requests resolved at the same time against one shared Router.  A call   *)
(* of route is taken one router at a time, and the future it returns is    *)
(* awaited in steps of its own, so that the tasks interleave.              *)

Tree(main, a, b) ==
    [r \in RouterIds |-> CASE r = 0 -> main [] r = 1 -> a [] r = 2 -> b
                           [] OTHER -> NewRouter]

\* Routes of two methods and a pattern route in the main router, a child
\* under "/a".
TreeMounted ==
    Tree([NewRouter EXCEPT
             !.specific_routes = <<NewRoute("POST", PathX, <<0, "specific", 1>>),
                                   NewRoute("GET", PathX, <<0, "specific", 2>>)>>,
             !.regex_routes = <<NewRoute("GET", PathItems, <<0, "regex", 1>>)>>,
             !.nested_routers = << <<PrefixA, 1>> >>],
         [NewRouter EXCEPT
             !.specific_routes = <<NewRoute("GET", PathX, <<1, "specific", 1>>)>>,
             !.mounted = PrefixA],
         NewRouter)

\* A child under "/a" with a child of its own under "/a".
TreeDeep ==
    Tree([NewRouter EXCEPT !.nested_routers = << <<PrefixA, 1>> >>],
         [NewRouter EXCEPT
             !.regex_routes = <<NewRoute("POST", PathWild, <<1, "regex", 1>>)>>,
             !.nested_routers = << <<PrefixA, 2>> >>,
             !.mounted = PrefixA],
         [NewRouter EXCEPT
             !.specific_routes = <<NewRoute("GET", PathX, <<2, "specific", 1>>)>>,
             !.mounted = PrefixA])

SharedRouters == {TreeMounted, TreeDeep}

\* router.handle(req, res, next) in a task of its own: route is called on the
\* shared router with the task's own request and response.
handle_in_task(t, method, path, outcome) ==
    /\ phase = "serving"
    /\ tasks[t].pc = "idle"
    /\ tasks' = [tasks EXCEPT ![t] =
           [IdleTask EXCEPT !.pc = "route", !.x = NewExchange(method, path),
                            !.outcome = outcome]]
    /\ UNCHANGED <<routers, middlewares, phase, req, res, invoked, visited,
                   stages, result, failure>>

\* As route_in_task, with the router to go on with kept in one place for all
\* the calls in progress.
route_in_task_shared_cursor(t) ==
    /\ tasks[t].pc = "route"
    /\ LET k == tasks[t]
           r == k.cur
           full_path == k.x.req.path
           method == k.x.req.method
           mounted == routers[r].mounted
       IN  IF ~SliceInBounds(mounted, full_path)
           THEN tasks' = [tasks EXCEPT ![t].pc = "done", ![t].result = "panic"]
           ELSE
           LET path == LocalPath(mounted, full_path)
               x1 == [k.x EXCEPT !.visited = Append(@, [router |-> r, path |-> path])]
               s == SpecificMatch(r, method, path)
               g == RegexMatch(r, method, path)
               n == NestedMatch(r, full_path)
           IN  IF s /= 0
               THEN tasks' = [tasks EXCEPT ![t].x = x1, ![t].pc = "handler",
                                  ![t].sel = <<routers[r].specific_routes[s]>>]
               ELSE IF g /= 0
               THEN tasks' = [tasks EXCEPT ![t].x = x1, ![t].pc = "handler",
                                  ![t].sel = <<routers[r].regex_routes[g]>>]
               ELSE IF n /= 0
               THEN tasks' = [u \in TaskIds |->
                        IF u = t THEN [k EXCEPT !.x = x1,
                                           !.cur = routers[r].nested_routers[n][2]]
                        ELSE IF tasks[u].pc = "route"
                        THEN [tasks[u] EXCEPT !.cur = routers[r].nested_routers[n][2]]
                        ELSE tasks[u]]
               ELSE tasks' = [tasks EXCEPT ![t].x = x1, ![t].pc = "not_found"]
    /\ UNCHANGED <<routers, middlewares, phase, req, res, invoked, visited,
                   stages, result, failure>>

\* One call of route, on the router the task has come to: the local path, the
\* two route loops, the loop over the nested routers.  It reads the router
\* and writes nothing but the task's own future.
route_in_task(t) ==
    /\ tasks[t].pc = "route"
    /\ LET k == tasks[t]
           r == k.cur
           full_path == k.x.req.path
           method == k.x.req.method
           mounted == routers[r].mounted
       IN  IF ~SliceInBounds(mounted, full_path)
           THEN tasks' = [tasks EXCEPT ![t].pc = "done", ![t].result = "panic"]
           ELSE
           LET path == LocalPath(mounted, full_path)
               x1 == [k.x EXCEPT !.visited = Append(@, [router |-> r, path |-> path])]
               s == SpecificMatch(r, method, path)
               g == RegexMatch(r, method, path)
               n == NestedMatch(r, full_path)
           IN  IF s /= 0
               THEN tasks' = [tasks EXCEPT ![t].x = x1, ![t].pc = "handler",
                                  ![t].sel = <<routers[r].specific_routes[s]>>]
               ELSE IF g /= 0
               THEN tasks' = [tasks EXCEPT ![t].x = x1, ![t].pc = "handler",
                                  ![t].sel = <<routers[r].regex_routes[g]>>]
               ELSE IF n /= 0
               THEN tasks' = [tasks EXCEPT ![t].x = x1,
                                  ![t].cur = routers[r].nested_routers[n][2]]
               ELSE tasks' = [tasks EXCEPT ![t].x = x1, ![t].pc = "not_found"]
    /\ UNCHANGED <<routers, middlewares, phase, req, res, invoked, visited,
                   stages, result, failure>>

\* handler(req, res_clone, next).await in the returned future.
await_handler(t) ==
    /\ tasks[t].pc = "handler"
    /\ LET k == tasks[t]
           h == CallHandler(k.sel[1], k.x, EmptyNext, k.outcome)
       IN  IF h.result = "Err"
           THEN tasks' = [tasks EXCEPT ![t].x = h.x, ![t].pc = "error",
                                       ![t].error = h.error]
           ELSE tasks' = [tasks EXCEPT ![t].x = h.x, ![t].pc = "done",
                                       ![t].result = "Ok"]
    /\ UNCHANGED <<routers, middlewares, phase, req, res, invoked, visited,
                   stages, result, failure>>

\* The Err branch of the future: set_status(500), body(...), Ok(()).
answer_error(t) ==
    /\ tasks[t].pc = "error"
    /\ tasks' = [tasks EXCEPT
           ![t].x.res = write_body(set_status(@, 500),
                                   "Internal Server Error: " \o tasks[t].error),
           ![t].error = "",
           ![t].pc = "done",
           ![t].result = "Ok"]
    /\ UNCHANGED <<routers, middlewares, phase, req, res, invoked, visited,
                   stages, result, failure>>

\* The future returned when nothing matched: set_status(404), body, Ok(()).
answer_not_found(t) ==
    /\ tasks[t].pc = "not_found"
    /\ tasks' = [tasks EXCEPT
           ![t].x = NotFound(@).x,
           ![t].pc = "done",
           ![t].result = NotFound(tasks[t].x).result]
    /\ UNCHANGED <<routers, middlewares, phase, req, res, invoked, visited,
                   stages, result, failure>>

InitShared ==
    /\ routers \in SharedRouters
    /\ middlewares = <<>>
    /\ phase = "serving"
    /\ req = [method |-> "", path |-> NoPath, params |-> <<>>]
    /\ res = NewResponse
    /\ invoked = <<>>
    /\ visited = <<>>
    /\ stages = <<>>
    /\ result = "none"
    /\ failure = ""
    /\ tasks = [t \in TaskIds |-> IdleTask]

NextShared ==
    \/ \E t \in TaskIds, method \in ReqMethods, path \in ReqPaths,
          outcome \in HandlerOutcomes : handle_in_task(t, method, path, outcome)
    \/ \E t \in TaskIds : route_in_task(t)
    \/ \E t \in TaskIds : await_handler(t)
    \/ \E t \in TaskIds : answer_error(t)
    \/ \E t \in TaskIds : answer_not_found(t)

SpecShared == InitShared /\ [][NextShared]_vars

-----------------------------------------------------------------------------
(* C1: in every router the request reaches, when an exact route has the    *)
(* request's method and the router-local path, exactly one handler is      *)
(* called and it is that of the (earliest such) exact route, whatever      *)
(* pattern routes of the router accept the path too.                       *)
C1_ExactRouteWins ==
    Handled =>
        \A k \in 1 .. Len(visited) :
            LET v == visited[k]
                hits == ExactHits(v.router, req.method, v.path)
            IN  hits /= {} =>
                    OnlyInvoked(routers[v.router].specific_routes[Earliest(hits)].handler)

\* An exact route was chosen although a pattern route accepts the path as well.
C1_Witness ==
    /\ Handled
    /\ ExactHits(MainRouter, req.method, req.path) /= {}
    /\ PatternHits(MainRouter, req.method, req.path) /= {}
    /\ Len(invoked) = 1
    /\ invoked[1].handler[2] = "specific"

(* C2: when no exact route matches and two or more pattern routes with the *)
(* request's method accept the router-local path, exactly one handler is   *)
(* called: that of the earliest registered of them.                        *)
C2_FirstPatternWins ==
    Handled =>
        \A k \in 1 .. Len(visited) :
            LET v == visited[k]
                hits == PatternHits(v.router, req.method, v.path)
            IN  (ExactHits(v.router, req.method, v.path) = {} /\ Cardinality(hits) >= 2) =>
                    OnlyInvoked(routers[v.router].regex_routes[Earliest(hits)].handler)

\* Two pattern routes accept the path and the first one's handler ran.
C2_Witness ==
    /\ Handled
    /\ ExactHits(MainRouter, req.method, req.path) = {}
    /\ Cardinality(PatternHits(MainRouter, req.method, req.path)) >= 2
    /\ Len(invoked) = 1
    /\ invoked[1].handler = <<MainRouter, "regex", 1>>

(* C3: when the last router the request reaches has no exact route, no     *)
(* pattern route and no mounted prefix matching it, the response is 404    *)
(* with body "Not Found", no handler is called and handle returns Ok.      *)
C3_NotFound ==
    Handled =>
        LET v == visited[Len(visited)]
        IN  (/\ ExactHits(v.router, req.method, v.path) = {}
             /\ PatternHits(v.router, req.method, v.path) = {}
             /\ ChildHits(v.router, req.path) = {})
            => /\ res.status = 404
               /\ res.body = "Not Found"
               /\ invoked = <<>>
               /\ result = "Ok"

\* A router with routes of the request's method, none of which matches.
C3_Witness ==
    /\ Handled
    /\ Len(visited) = 1
    /\ Len(routers[MainRouter].specific_routes) >= 1
    /\ Len(routers[MainRouter].regex_routes) >= 1
    /\ \A i \in 1 .. Len(routers[MainRouter].regex_routes) :
           routers[MainRouter].regex_routes[i].method = req.method
    /\ ExactHits(MainRouter, req.method, req.path) = {}
    /\ PatternHits(MainRouter, req.method, req.path) = {}
    /\ ChildHits(MainRouter, req.path) = {}
    /\ res.status = 404

(* C4: when a called handler returns an error with message m, the response *)
(* is 500 with body "Internal Server Error: " followed by m, and handle    *)
(* returns Ok.                                                             *)
C4_HandlerErrorAbsorbed ==
    Handled =>
        \A i \in 1 .. Len(invoked) :
            invoked[i].outcome = "err" =>
                /\ res.status = 500
                /\ res.body = "Internal Server Error: " \o HandlerError
                /\ result = "Ok"

\* The failing handler is a pattern route's, in a mounted router.
C4_Witness ==
    /\ Handled
    /\ Len(invoked) = 1
    /\ invoked[1].outcome = "err"
    /\ invoked[1].handler[1] /= MainRouter
    /\ invoked[1].handler[2] = "regex"
    /\ res.status = 500

-----------------------------------------------------------------------------
(* Mounted routers *)

\* s with the prefix p (which it starts with) removed.
After(p, s) == SubSeq(s, Len(p) + 1, Len(s))

\* s, which begins with '/', with its leading '/' characters collapsed into one.
RECURSIVE Collapse(_)
Collapse(s) ==
    IF Len(s) >= 2 /\ s[1] = "/" /\ s[2] = "/" THEN Collapse(Tail(s)) ELSE s

NoLocalHit(r, method, path) ==
    ExactHits(r, method, path) = {} /\ PatternHits(r, method, path) = {}

Prefix(r, i) == routers[r].nested_routers[i][1]
Child(r, i) == routers[r].nested_routers[i][2]

(* C5, as stated: for every child mounted on the root under a prefix P, a  *)
(* request with full path P followed by r (r beginning with '/') that      *)
(* matches no local route of the root is delegated to that child, which    *)
(* matches against r.                                                      *)
C5_AsStated ==
    Handled =>
        \A i \in 1 .. Len(routers[MainRouter].nested_routers) :
            LET r == After(Prefix(MainRouter, i), req.path)
            IN  (/\ starts_with(req.path, Prefix(MainRouter, i))
                 /\ r /= <<>> /\ Head(r) = "/"
                 /\ NoLocalHit(MainRouter, req.method, req.path))
                => /\ Len(visited) >= 2
                   /\ visited[2] = [router |-> Child(MainRouter, i), path |-> r]

(* C5, amended: such a request is delegated to the first-mounted child     *)
(* whose prefix P starts the full path, and that child matches against r   *)
(* with its leading '/' characters collapsed into one, which is r when r   *)
(* begins with exactly one '/'.                                            *)
C5_MountedPrefixStripped ==
    Handled =>
        LET hits == ChildHits(MainRouter, req.path)
        IN  (hits /= {} /\ NoLocalHit(MainRouter, req.method, req.path)) =>
                LET i == Earliest(hits)
                    r == After(Prefix(MainRouter, i), req.path)
                IN  (r /= <<>> /\ Head(r) = "/") =>
                        /\ Len(visited) >= 2
                        /\ visited[2] = [router |-> Child(MainRouter, i),
                                         path |-> Collapse(r)]
                        /\ (Len(r) = 1 \/ r[2] /= "/") => visited[2].path = r

\* The child's exact route "/x", mounted under "/a", answers "/a/x".
C5_Witness ==
    /\ Handled
    /\ req.path = PrefixA \o PathX
    /\ Len(visited) = 2
    /\ visited[2].path = PathX
    /\ routers[visited[2].router].mounted = PrefixA
    /\ Len(invoked) = 1
    /\ invoked[1].handler = <<visited[2].router, "specific", 1>>

(* C6: with B mounted under P2 in A and A mounted under P1 in the root, a  *)
(* request with full path P1 P2 r that matches no local route of the root  *)
(* or of A goes root -> A -> B; A matches against P2 r and B against r.    *)
C6_MultiLevelComposes ==
    Handled =>
        \A i \in 1 .. Len(routers[MainRouter].nested_routers) :
            LET a == Child(MainRouter, i)
                p1 == Prefix(MainRouter, i)
            IN  \A j \in 1 .. Len(routers[a].nested_routers) :
                    LET b == Child(a, j)
                        p2 == Prefix(a, j)
                        r == After(p1 \o p2, req.path)
                    IN  (/\ starts_with(req.path, p1 \o p2)
                         /\ r /= <<>> /\ Head(r) = "/" /\ Collapse(r) = r
                         /\ NoLocalHit(MainRouter, req.method, req.path)
                         /\ NoLocalHit(a, req.method, p2 \o r))
                        => visited = << [router |-> MainRouter, path |-> req.path],
                                        [router |-> a, path |-> p2 \o r],
                                        [router |-> b, path |-> r] >>

-----------------------------------------------------------------------------
(* Pattern routes *)

HasNamedGroup(path) == contains(path, "(?P<id>")

(* C7: a route whose path has a '*' or a named-capture group is kept with  *)
(* the pattern routes; only purely literal paths are kept with the exact   *)
(* routes.                                                                 *)
C7_DynamicRoutesArePatternRoutes ==
    \A r \in RouterIds :
        /\ \A i \in 1 .. Len(routers[r].specific_routes) :
               LET path == routers[r].specific_routes[i].path
               IN  ~contains(path, "*") /\ ~HasNamedGroup(path)
        /\ \A i \in 1 .. Len(routers[r].regex_routes) :
               LET path == routers[r].regex_routes[i].path
               IN  contains(path, "*") \/ HasNamedGroup(path)

RouteOf(h) ==
    IF h[2] = "regex" THEN routers[h[1]].regex_routes[h[3]]
    ELSE routers[h[1]].specific_routes[h[3]]

(* C8: a handler called through a route with the named group id is given a *)
(* request whose captures hold id; and a router whose only route is        *)
(* "/(?P<id>\d+)$" answers "/4" by calling the handler with id = "4".      *)
C8_CapturesVisibleToHandler ==
    Handled =>
        /\ \A k \in 1 .. Len(invoked) :
               (HasNamedGroup(RouteOf(invoked[k].handler).path) /\ req.path = PathFour)
               => /\ "id" \in DOMAIN invoked[k].params
                  /\ invoked[k].params["id"] = <<"4">>
        /\ (/\ Len(visited) = 1
            /\ req.path = PathFour
            /\ routers[MainRouter].regex_routes = <<>>
            /\ Len(routers[MainRouter].specific_routes) = 1
            /\ routers[MainRouter].specific_routes[1].path = PathItems
            /\ routers[MainRouter].specific_routes[1].method = req.method)
           => /\ Len(invoked) = 1
              /\ "id" \in DOMAIN invoked[1].params

-----------------------------------------------------------------------------
(* The middleware sequence *)

\* How often the middleware at position i was invoked for the request.
Invocations(i) == Cardinality({k \in 1 .. Len(stages) : stages[k] = i})

(* C9: in a sequence of two or more middlewares run for a request, when    *)
(* the first returns without calling proceed (it answers or fails) no      *)
(* later middleware and no router is invoked; when it calls proceed once,  *)
(* the second is invoked exactly once.  A router in first place calls      *)
(* proceed exactly when its handler does.                                  *)
C9_ShortCircuit ==
    (Handled /\ stages /= <<>> /\ Len(middlewares) >= 2) =>
        /\ stages[1] = 1 /\ Invocations(1) = 1
        /\ middlewares[1] \in {"stop", "fail"} =>
               /\ stages = <<1>>
               /\ visited = <<>>
               /\ invoked = <<>>
        /\ middlewares[1] = "pass" => Invocations(2) = 1
        /\ middlewares[1] = "router" =>
               Invocations(2) =
                   IF invoked /= <<>> /\ invoked[1].outcome = "ok" THEN 1 ELSE 0

\* [A, B, router] where A answers the request itself.
C9_Witness ==
    /\ Handled
    /\ Len(middlewares) = 3
    /\ middlewares[1] = "stop"
    /\ middlewares[2] = "pass"
    /\ middlewares[3] = "router"
    /\ stages = <<1>>
    /\ res.body = StopBody

(* C10: proceed with the cursor at the end of the sequence invokes         *)
(* nothing, leaves the response as it is and returns Ok: a request that    *)
(* only passes through middlewares ends Ok with an untouched response, and *)
(* a handler that writes its body and calls next.proceed with nothing left *)
(* to run ends Ok with the body it wrote.                                  *)
C10_ProceedAtEndIsNoOp ==
    Handled =>
        /\ (visited = <<>> /\ \A k \in 1 .. Len(stages) : middlewares[stages[k]] = "pass")
           => /\ result = "Ok"
              /\ res = NewResponse
              /\ stages = [k \in 1 .. Len(stages) |-> k]
        /\ (/\ Len(invoked) = 1
            /\ invoked[1].outcome = "ok"
            /\ (stages = <<>> \/ middlewares[Len(middlewares)] = "router"))
           => /\ result = "Ok"
              /\ res.body = HandlerBody
              /\ res.status = NewResponse.status
              /\ (stages = <<>> \/ stages[Len(stages)] = Len(middlewares))

\* The handler of the router, last in the sequence, wrote its body and
\* called proceed.
C10_Witness ==
    /\ Handled
    /\ middlewares = <<"pass", "pass", "router">>
    /\ stages = <<1, 2, 3>>
    /\ Len(invoked) = 1
    /\ invoked[1].outcome = "ok"
    /\ res.body = HandlerBody
    /\ result = "Ok"

(* C11: when a middleware that is no router returns an error, no stage    *)
(* after it runs; the error is the result of the request unless a stage    *)
(* that called proceed before it converts it: a recovering middleware,     *)
(* which answers itself, or a router whose handler called proceed, which   *)
(* answers 500.  The innermost such stage decides the response; a          *)
(* middleware that only passes proceed's result on converts nothing.       *)
C11_MiddlewareErrorPropagates ==
    Handled =>
        \A k \in 1 .. Len(stages) :
            middlewares[stages[k]] = "fail" =>
                LET absorbers == {j \in 1 .. (k - 1) :
                                     middlewares[stages[j]] \in {"recover", "router"}}
                IN  /\ k = Len(stages)
                    /\ absorbers = {} =>
                           /\ result = "Err"
                           /\ failure = MiddlewareError
                           /\ res = NewResponse
                    /\ absorbers /= {} =>
                           LET j == CHOOSE a \in absorbers : \A b \in absorbers : b <= a
                           IN  /\ result = "Ok"
                               /\ failure = ""
                               /\ middlewares[stages[j]] = "recover" =>
                                      res.body = RecoverBody
                               /\ middlewares[stages[j]] = "router" =>
                                      /\ res.status = 500
                                      /\ res.body = "Internal Server Error: "
                                                        \o MiddlewareError

\* [pass, fail, router]: the error of the second reaches the server through
\* the first, and the router never runs.
C11_Witness ==
    /\ Handled
    /\ middlewares = <<"pass", "fail", "router">>
    /\ stages = <<1, 2>>
    /\ visited = <<>>
    /\ result = "Err"
    /\ failure = MiddlewareError

-----------------------------------------------------------------------------
(* Registration *)

\* b is a with one route of the method and path appended.
AppendedRoute(a, b, method, path) ==
    /\ Len(b) = Len(a) + 1
    /\ SubSeq(b, 1, Len(a)) = a
    /\ b[Len(b)].method = method
    /\ b[Len(b)].path = path

\* The step registered one route in router r and changed nothing else.
Registered(r, method, path) ==
    /\ \/ /\ AppendedRoute(routers[r].specific_routes, routers'[r].specific_routes,
                           method, path)
          /\ routers'[r].regex_routes = routers[r].regex_routes
       \/ /\ AppendedRoute(routers[r].regex_routes, routers'[r].regex_routes,
                           method, path)
          /\ routers'[r].specific_routes = routers[r].specific_routes
    /\ routers'[r].nested_routers = routers[r].nested_routers
    /\ routers'[r].mounted = routers[r].mounted
    /\ \A o \in RouterIds \ {r} : routers'[o] = routers[o]

\* The step mounted child under the prefix in router r and changed nothing else.
MountedChild(r, prefix, child) ==
    /\ routers'[r].nested_routers =
           Append(routers[r].nested_routers, <<prefix, child>>)
    /\ routers'[r].specific_routes = routers[r].specific_routes
    /\ routers'[r].regex_routes = routers[r].regex_routes
    /\ routers'[r].mounted = routers[r].mounted
    /\ routers'[child] = [routers[child] EXCEPT !.mounted = prefix]
    /\ \A o \in RouterIds \ {r, child} : routers'[o] = routers[o]

C12_Step ==
    /\ \A r \in RouterIds, path \in RoutePaths :
           /\ get(r, path) => Registered(r, "GET", path)
           /\ post(r, path) => Registered(r, "POST", path)
           /\ put(r, path) => Registered(r, "PUT", path)
           /\ delete(r, path) => Registered(r, "DELETE", path)
           /\ patch(r, path) => Registered(r, "PATCH", path)
    /\ \A r \in RouterIds, child \in RouterIds, prefix \in MountPaths :
           use_router(r, prefix, child) => MountedChild(r, prefix, child)

(* C12: a call of get, post, put, delete or patch with path p appends one  *)
(* route with that method and p at the end of one of the two route lists   *)
(* of the router and changes nothing else; use_router(prefix, child)       *)
(* appends (prefix, child) to the mounted children, sets the child's mount *)
(* prefix and changes nothing else.                                        *)
C12_RegistrationFrame == [][C12_Step]_vars

\* A router with a second exact route registered after the first, and a
\* child mounted.
C12_Witness ==
    \E r \in RouterIds :
        /\ Len(routers[r].specific_routes) = 2
        /\ routers[r].specific_routes[1].method /= routers[r].specific_routes[2].method
        /\ routers[r].specific_routes[2].method = "PATCH"
        /\ Len(routers[r].nested_routers) = 1
        /\ routers[Child(r, 1)].mounted = Prefix(r, 1)

-----------------------------------------------------------------------------
(* Delegation to mounted children *)

(* C13: a router hands the request to a mounted child only when none of    *)
(* its own exact or pattern routes matched; the child is the first, in     *)
(* mount order, whose prefix starts the request's full path; what that     *)
(* child answers is the answer: no other child is tried, also when the     *)
(* child answers 404.                                                      *)
C13_FirstMatchingChildIsFinal ==
    Handled =>
        /\ visited /= <<>>
        /\ visited[1].router = MainRouter
        /\ \A k \in 1 .. Len(visited) :
               LET v == visited[k]
                   hits == ChildHits(v.router, req.path)
                   local == ~NoLocalHit(v.router, req.method, v.path)
               IN  /\ k < Len(visited) =>
                          /\ ~local
                          /\ hits /= {}
                          /\ visited[k + 1].router = Child(v.router, Earliest(hits))
                   /\ k = Len(visited) => (local \/ hits = {})
                   /\ (k = Len(visited) /\ ~local) =>
                          /\ res.status = 404
                          /\ res.body = "Not Found"
                          /\ invoked = <<>>

\* Two children under prefixes that both start the path: the first has no
\* route for the request, the second has one, and the answer is 404.
C13_Witness ==
    /\ Handled
    /\ Len(routers[MainRouter].nested_routers) = 2
    /\ ChildHits(MainRouter, req.path) = {1, 2}
    /\ Len(visited) = 2
    /\ visited[2].router = Child(MainRouter, 1)
    /\ ExactHits(Child(MainRouter, 2), req.method,
                 LocalPath(Prefix(MainRouter, 2), req.path)) /= {}
    /\ res.status = 404
    /\ invoked = <<>>

-----------------------------------------------------------------------------
(* Methods *)

\* The exact routes of r with the path but another method.
ExactOtherMethod(r, method, path) ==
    {i \in 1 .. Len(routers[r].specific_routes) :
        /\ routers[r].specific_routes[i].method /= method
        /\ routers[r].specific_routes[i].path = path}

\* The pattern routes of r accepting the path but of another method.
PatternOtherMethod(r, method, path) ==
    {i \in 1 .. Len(routers[r].regex_routes) :
        /\ routers[r].regex_routes[i].method /= method
        /\ is_match(routers[r].regex_routes[i].regex, path)}

(* C14: every handler called belongs to a route of the request's method;   *)
(* in a router where a route of another method matches the path, that      *)
(* route is passed over: the earliest matching exact route of the          *)
(* request's method answers, else the earliest such pattern route, else    *)
(* the first mounted child whose prefix starts the path, else 404.         *)
C14_MethodMustMatch ==
    Handled =>
        /\ \A i \in 1 .. Len(invoked) :
               RouteOf(invoked[i].handler).method = req.method
        /\ \A k \in 1 .. Len(visited) :
               LET v == visited[k]
                   r == v.router
                   exact == ExactHits(r, req.method, v.path)
                   pattern == PatternHits(r, req.method, v.path)
                   children == ChildHits(r, req.path)
               IN  (\/ ExactOtherMethod(r, req.method, v.path) /= {}
                    \/ PatternOtherMethod(r, req.method, v.path) /= {})
                   => /\ exact /= {} =>
                             OnlyInvoked(routers[r].specific_routes[Earliest(exact)].handler)
                      /\ (exact = {} /\ pattern /= {}) =>
                             OnlyInvoked(routers[r].regex_routes[Earliest(pattern)].handler)
                      /\ (exact = {} /\ pattern = {} /\ children /= {}) =>
                             /\ k < Len(visited)
                             /\ visited[k + 1].router = Child(r, Earliest(children))
                      /\ (exact = {} /\ pattern = {} /\ children = {}) =>
                             /\ k = Len(visited)
                             /\ res.status = 404
                             /\ invoked = <<>>

\* An exact route of another method registered first, one of the request's
\* method after it: the second answers.
C14_Witness ==
    /\ Handled
    /\ ExactOtherMethod(MainRouter, req.method, req.path) = {1}
    /\ ExactHits(MainRouter, req.method, req.path) = {2}
    /\ OnlyInvoked(<<MainRouter, "specific", 2>>)
    /\ res.body = HandlerBody

-----------------------------------------------------------------------------
(* Shared router *)

\* What the task's request gets when it is resolved alone.
Alone(t) ==
    route(MainRouter, NewExchange(tasks[t].x.req.method, tasks[t].x.req.path),
          EmptyNext, tasks[t].outcome)

SameAsAlone ==
    \A t \in TaskIds :
        tasks[t].pc = "done" =>
            /\ tasks[t].x.invoked = Alone(t).x.invoked
            /\ tasks[t].x.res = Alone(t).x.res
            /\ tasks[t].x.visited = Alone(t).x.visited
            /\ tasks[t].result = Alone(t).result

(* C15: no step of resolving a request changes a router's exact routes,    *)
(* pattern routes, mounted children or mount prefix; and however the steps *)
(* of the requests resolved at the same time on the shared router          *)
(* interleave, each request ends with the handler, status and body it gets *)
(* when resolved alone.                                                    *)
C15_SharedRouterUnaffected == [][routers' = routers]_vars /\ []SameAsAlone

\* Two requests both resolved, the second having gone down to a child while
\* the first was between its call of route and its handler.
C15_Witness ==
    /\ tasks[1].pc = "done"
    /\ tasks[2].pc = "done"
    /\ tasks[1].x.req.path /= tasks[2].x.req.path
    /\ Len(tasks[1].x.invoked) = 1
    /\ Len(tasks[2].x.visited) = 2
    /\ Len(tasks[2].x.invoked) = 1
    /\ tasks[1].x.res.status = 500

-----------------------------------------------------------------------------
(* The slice of the full path *)

(* C16: no call of handle panics, and every call of route it makes on a    *)
(* router with a mount prefix has a full path that starts with the prefix, *)
(* so that the slice of the full path after the prefix is in bounds; the   *)
(* local path of such a router begins with exactly one '/'.                *)
C16_SliceInBounds ==
    Handled =>
        /\ result /= "panic"
        /\ \A k \in 1 .. Len(visited) :
               LET v == visited[k]
                   mounted == routers[v.router].mounted
               IN  mounted /= NoPath =>
                       /\ starts_with(req.path, mounted)
                       /\ Len(mounted) <= Len(req.path)
                       /\ v.path /= <<>>
                       /\ v.path[1] = "/"
                       /\ Len(v.path) >= 2 => v.path[2] /= "/"

\* A request for a path that is exactly the prefix of the child it reaches:
\* the slice is empty and the local path is "/".
C16_Witness ==
    /\ Handled
    /\ Len(visited) = 2
    /\ routers[visited[2].router].mounted = req.path
    /\ visited[2].path = PathRoot
    /\ result = "Ok"

=============================================================================
